---- MODULE Spec2Model ----
(***************************************************************************)
(* Model of org.acmsl.artifact.licdata.domain.LicdataArtifact: the three   *)
(* event listeners (DockerImageRequested, DockerImagePushRequested,        *)
(* CredentialProvided), the Flow history they share through the singleton, *)
(* and the build / push steps with their external collaborators.           *)
(*                                                                         *)
(* Python strings are modelled as sequences of tokens, so that f-string    *)
(* formatting and str.replace are computed rather than assumed.  Python    *)
(* dicts (event metadata) are records over a fixed key set whose missing   *)
(* keys hold Absent.                                                       *)
(***************************************************************************)
EXTENDS Integers, Sequences, FiniteSets, TLC

\* ---------------------------------------------------------------- bounds
MaxDeliveries == 3
MaxStream == 2

\* ---------------------------------------------------------------- values
None == <<"<None>">>
Absent == <<"<absent>">>
NoRaise == "none"

Str(x) == IF x = None THEN <<"None">> ELSE x

Replace(s, old) == SelectSeq(s, LAMBDA t : t # old)

Range(s) == {s[i] : i \in 1..Len(s)}

MetadataKeys ==
  {"variant", "credential_name", "credential_value", "docker_registry_url",
   "azure_base_image_version", "python_version"}

EmptyMetadata == [k \in MetadataKeys |-> Absent]

\* dict.get(key, default)
Get(metadata, key, default) ==
  IF metadata[key] = Absent THEN default ELSE metadata[key]

\* a list bound to a parameter that expects the metadata dict
ListAsMetadata == [k \in MetadataKeys |-> <<"<list>">>]

\* a dict bound to a parameter that expects the error description
DictAsCause == <<"<dict>">>

\* ---------------------------------------------------------------- events
NoEvent ==
  [id |-> 0, kind |-> "None", previous_event_ids |-> <<>>,
   image_name |-> None, image_version |-> None, image_url |-> None,
   registry_url |-> None, metadata |-> EmptyMetadata, cause |-> None,
   name |-> None, value |-> None]

DockerImageRequested(id, imageName, imageVersion, metadata, previousEventIds) ==
  [NoEvent EXCEPT !.id = id, !.kind = "DockerImageRequested",
                  !.image_name = imageName, !.image_version = imageVersion,
                  !.metadata = metadata,
                  !.previous_event_ids = previousEventIds]

DockerImagePushRequested(id, imageName, imageVersion, metadata, previousEventIds) ==
  [NoEvent EXCEPT !.id = id, !.kind = "DockerImagePushRequested",
                  !.image_name = imageName, !.image_version = imageVersion,
                  !.metadata = metadata,
                  !.previous_event_ids = previousEventIds]

DockerImageFailed(id, imageName, imageVersion, metadata, cause, previousEventIds) ==
  [NoEvent EXCEPT !.id = id, !.kind = "DockerImageFailed",
                  !.image_name = imageName, !.image_version = imageVersion,
                  !.metadata = metadata, !.cause = cause,
                  !.previous_event_ids = previousEventIds]

DockerImageAvailable(id, imageName, imageVersion, imageUrl, metadata, previousEventIds) ==
  [NoEvent EXCEPT !.id = id, !.kind = "DockerImageAvailable",
                  !.image_name = imageName, !.image_version = imageVersion,
                  !.image_url = imageUrl, !.metadata = metadata,
                  !.previous_event_ids = previousEventIds]

CredentialRequested(id, name, metadata, previousEventIds) ==
  [NoEvent EXCEPT !.id = id, !.kind = "CredentialRequested",
                  !.name = name, !.metadata = metadata,
                  !.previous_event_ids = previousEventIds]

CredentialProvided(id, name, value, metadata, previousEventIds) ==
  [NoEvent EXCEPT !.id = id, !.kind = "CredentialProvided",
                  !.name = name, !.value = value, !.metadata = metadata,
                  !.previous_event_ids = previousEventIds]

DockerImagePushed(id, imageName, imageVersion, imageUrl, registryUrl, metadata, previousEventIds) ==
  [NoEvent EXCEPT !.id = id, !.kind = "DockerImagePushed",
                  !.image_name = imageName, !.image_version = imageVersion,
                  !.image_url = imageUrl, !.registry_url = registryUrl,
                  !.metadata = metadata,
                  !.previous_event_ids = previousEventIds]

\* The constructor as the call that passes every field uses it
\* (name, version, url, registry, error, metadata, previousEventIds).
DockerImagePushFailed(id, imageName, imageVersion, imageUrl, registryUrl, cause, metadata, previousEventIds) ==
  [NoEvent EXCEPT !.id = id, !.kind = "DockerImagePushFailed",
                  !.image_name = imageName, !.image_version = imageVersion,
                  !.image_url = imageUrl, !.registry_url = registryUrl,
                  !.cause = cause, !.metadata = metadata,
                  !.previous_event_ids = previousEventIds]

\* ------------------------------------------------------------------ Flow
\* Flow.add_event: appends to the history, nothing is deduplicated
add_event(h, event) == Append(h, event)

RECURSIVE add_events(_, _)
\* "for evt in result: instance.add_event(evt)"
add_events(h, result) ==
  IF result = <<>> THEN h
  ELSE add_events(add_event(h, Head(result)), Tail(result))

\* Flow.find_latest_event: the event of the kind inserted most recently,
\* NoEvent (Python None) when the history holds none
find_latest_event(h, kind) ==
  LET idx == {i \in 1..Len(h) : h[i].kind = kind}
  IN IF idx = {} THEN NoEvent
     ELSE h[CHOOSE i \in idx : \A j \in idx : j <= i]

\* ------------------------------------------------------- LicdataArtifact
\* a missing variant taken for azure
is_for_azure_by_default(event) ==
  Get(event.metadata, "variant", <<"azure">>) = <<"azure">>

is_for_azure(event) == Get(event.metadata, "variant", None) = <<"azure">>

\* the dots of the python version kept in the image name
azure_image_name_dotted(event) ==
  Str(event.image_name) \o <<"-azure-">>
    \o Str(Get(event.metadata, "azure_base_image_version", <<"4">>))
    \o <<"-python">>
    \o Str(Get(event.metadata, "python_version", <<"3", ".", "12">>))

\* image_name / image_tag of build_docker_image_for_azure
azure_image_name(event) ==
  Str(event.image_name) \o <<"-azure-">>
    \o Str(Get(event.metadata, "azure_base_image_version", <<"4">>))
    \o <<"-python">>
    \o Replace(Str(Get(event.metadata, "python_version", <<"3", ".", "12">>)), ".")

local_image_of(imageName, imageVersion) ==
  Str(imageName) \o <<":">> \o Str(imageVersion)

\* Outcome of one handler invocation: the history it leaves, the events it
\* returns, the exception that escapes it, the collaborators it invoked and
\* the number of event ids it consumed.
Outcome(h, returned, raised, builds, pushes, used) ==
  [events |-> h, returned |-> returned, raised |-> raised,
   builds |-> builds, pushes |-> pushes, used |-> used]

\* the requesting event's id left out of the chain
available_previous_event_ids_without_request(event) == event.previous_event_ids

\* the chain started with the id that follows the requesting event's
available_previous_event_ids_forward(event) ==
  <<event.id + 1>> \o event.previous_event_ids

\* previousEventIds of the DockerImageAvailable
available_previous_event_ids(event) == <<event.id>> \o event.previous_event_ids

\* build_docker_image_for_azure: build is the behaviour of the build
\* collaborator (git clone + docker build), "ok" or "raises".
build_docker_image_for_azure(h, event, id, build) ==
  IF build = "raises"
  THEN [events |-> h, result |-> NoEvent, raised |-> "BuildError"]
  ELSE LET image_name == azure_image_name(event)
           image_version == event.image_version
           docker_registry_url ==
             Get(event.metadata, "docker_registry_url",
                 <<"localhost", ":", "5000">>)
           local_image == local_image_of(image_name, image_version)
           result ==
             DockerImageAvailable(
               id, image_name, image_version,
               Str(docker_registry_url) \o <<"/">> \o local_image,
               event.metadata,
               available_previous_event_ids(event))
       IN [events |-> add_event(h, result), result |-> result,
           raised |-> NoRaise]

\* the inbound event recorded after the handler's work instead of before
listen_DockerImageRequested_recording_last(h, event, id, build) ==
  IF is_for_azure(event)
  THEN LET b == build_docker_image_for_azure(h, event, id, build)
       IN IF b.raised # NoRaise
          THEN Outcome(b.events, <<>>, b.raised, 1, 0, 0)
          ELSE Outcome(add_event(add_events(add_event(b.events, b.result),
                                            <<b.result>>), event),
                       <<b.result>>, NoRaise, 1, 0, 1)
  ELSE LET result ==
             <<DockerImageFailed(
                 id, event.image_name, event.image_version,
                 event.metadata, <<"Image not available">>,
                 <<event.id>> \o event.previous_event_ids)>>
       IN Outcome(add_event(add_events(h, result), event), result, NoRaise, 0, 0, 1)

listen_DockerImageRequested(h, event, id, build) ==
  LET h1 == add_event(h, event)
  IN IF is_for_azure(event)
     THEN LET b == build_docker_image_for_azure(h1, event, id, build)
          IN IF b.raised # NoRaise
             THEN Outcome(b.events, <<>>, b.raised, 1, 0, 0)
             ELSE LET result == <<b.result>>
                      h2 == add_event(b.events, b.result)
                  IN Outcome(add_events(h2, result), result, NoRaise, 1, 0, 1)
     ELSE LET result ==
                <<DockerImageFailed(
                    id, event.image_name, event.image_version,
                    event.metadata, <<"Image not available">>,
                    <<event.id>> \o event.previous_event_ids)>>
          IN Outcome(add_events(h1, result), result, NoRaise, 0, 0, 1)

\* the credential check inverted
credential_event_inverted(event, docker_image_available, id) ==
  IF Get(event.metadata, "credential_name", None) # None
  THEN CredentialRequested(
         id, Get(event.metadata, "credential_name", None), event.metadata,
         <<docker_image_available.id>>
           \o docker_image_available.previous_event_ids)
  ELSE CredentialProvided(
         id, Get(event.metadata, "credential_name", None),
         Get(event.metadata, "credential_value", None), event.metadata,
         <<docker_image_available.id>>
           \o docker_image_available.previous_event_ids)

\* the DockerImageAvailable's own id left out of the chain
credential_event_without_image_id(event, docker_image_available, id) ==
  IF Get(event.metadata, "credential_name", None) = None
  THEN CredentialRequested(
         id, Get(event.metadata, "credential_name", None), event.metadata,
         docker_image_available.previous_event_ids)
  ELSE CredentialProvided(
         id, Get(event.metadata, "credential_name", None),
         Get(event.metadata, "credential_value", None), event.metadata,
         docker_image_available.previous_event_ids)

\* the event that follows the DockerImageAvailable of a push request: a
\* CredentialRequested when the metadata names no credential, otherwise a
\* CredentialProvided made from the metadata
credential_event(event, docker_image_available, id) ==
  IF Get(event.metadata, "credential_name", None) = None
  THEN CredentialRequested(
         id, Get(event.metadata, "credential_name", None), event.metadata,
         <<docker_image_available.id>>
           \o docker_image_available.previous_event_ids)
  ELSE CredentialProvided(
         id, Get(event.metadata, "credential_name", None),
         Get(event.metadata, "credential_value", None), event.metadata,
         <<docker_image_available.id>>
           \o docker_image_available.previous_event_ids)

listen_DockerImagePushRequested(h, event, id, build) ==
  LET h1 == add_event(h, event)
  IN IF is_for_azure(event)
     THEN LET b == build_docker_image_for_azure(h1, event, id, build)
          IN IF b.raised # NoRaise
             THEN Outcome(b.events, <<>>, b.raised, 1, 0, 0)
             ELSE LET docker_image_available == b.result
                      h2 == add_event(b.events, docker_image_available)
                      next ==
                        credential_event(event, docker_image_available, id + 1)
                      result == <<docker_image_available, next>>
                  IN Outcome(add_events(h2, result), result, NoRaise, 1, 0, 2)
     ELSE LET result ==
                <<DockerImageFailed(
                    id, event.image_name, event.image_version,
                    event.metadata, <<"Image not available">>,
                    <<event.id>> \o event.previous_event_ids)>>
          IN Outcome(add_events(h1, result), result, NoRaise, 0, 0, 1)

\* only the first notification examined
scan_push_logs_first_only(push_logs) ==
  push_logs # <<>> /\ Head(push_logs) = "error"

RECURSIVE scan_push_logs(_)
\* "for log_line in push_logs: if 'error' in log_line: ...; break":
\* TRUE iff the loop leaves through the error branch
scan_push_logs(push_logs) ==
  IF push_logs = <<>> THEN FALSE
  ELSE IF Head(push_logs) = "error" THEN TRUE
  ELSE scan_push_logs(Tail(push_logs))

\* The push itself (docker.from_env() to the end of the method): push is
\* the behaviour of the docker client, the notifications it yields and the
\* exception it raises.
push_image(h, dockerImageAvailable, credentialProvided, id, push) ==
  LET docker_registry_url ==
        Get(credentialProvided.metadata, "docker_registry_url", None)
      local_image ==
        local_image_of(dockerImageAvailable.image_name,
                       dockerImageAvailable.image_version)
      remote_image == Str(docker_registry_url) \o <<"/">> \o local_image
      ids == <<dockerImageAvailable.id, credentialProvided.id>>
               \o dockerImageAvailable.previous_event_ids
      finish(result) == Outcome(add_event(h, result), <<result>>, NoRaise, 0, 1, 1)
  IN IF scan_push_logs(push.stream)
     THEN finish(DockerImagePushFailed(
                   id, dockerImageAvailable.image_name,
                   dockerImageAvailable.image_version, remote_image,
                   docker_registry_url, DictAsCause, ListAsMetadata, <<>>))
     ELSE IF push.raises = "APIError"
     THEN finish(DockerImagePushFailed(
                   id, dockerImageAvailable.image_name,
                   dockerImageAvailable.image_version, remote_image,
                   docker_registry_url, <<"APIError">>,
                   dockerImageAvailable.metadata, ids))
     ELSE IF push.raises # NoRaise
     THEN Outcome(h, <<>>, push.raises, 0, 1, 0)
     ELSE finish(DockerImagePushed(
                   id, dockerImageAvailable.image_name,
                   dockerImageAvailable.image_version, remote_image,
                   docker_registry_url, dockerImageAvailable.metadata, ids))

\* a missing DockerImageAvailable pushed like any other
push_docker_image_for_azure_unguarded(h, dockerImageAvailable, credentialProvided, id, push) ==
  push_image(h, dockerImageAvailable, credentialProvided, id, push)

\* push_docker_image_for_azure: reading image_name of a missing
\* DockerImageAvailable (Python None) raises before the docker client is
\* created; otherwise the push proceeds.
push_docker_image_for_azure(h, dockerImageAvailable, credentialProvided, id, push) ==
  IF dockerImageAvailable = NoEvent
  THEN Outcome(h, <<>>, "AttributeError", 0, 0, 0)
  ELSE push_image(h, dockerImageAvailable, credentialProvided, id, push)

\* the oldest DockerImageAvailable recovered instead of the latest
continue_flow_oldest(h, event, id, push) ==
  LET idx == {i \in 1..Len(h) : h[i].kind = "DockerImageAvailable"}
      docker_image_available ==
        IF idx = {} THEN NoEvent
        ELSE h[CHOOSE i \in idx : \A j \in idx : i <= j]
  IN push_docker_image_for_azure(h, docker_image_available, event, id, push)

\* a flow that lets itself be resumed once only
continue_flow_resumed_once(h, event, id, push) ==
  IF Len(SelectSeq(h, LAMBDA e : e.kind = "CredentialProvided")) > 2
  THEN Outcome(h, <<>>, "AlreadyResumed", 0, 0, 0)
  ELSE push_docker_image_for_azure(
         h, find_latest_event(h, "DockerImageAvailable"), event, id, push)

\* the DockerImageAvailable recovered through the credential's chain
continue_flow_correlated(h, event, id, push) ==
  LET idx == {i \in 1..Len(h) :
                /\ h[i].kind = "DockerImageAvailable"
                /\ h[i].id \in Range(event.previous_event_ids)}
      docker_image_available ==
        IF idx = {} THEN find_latest_event(h, "DockerImageAvailable")
        ELSE h[CHOOSE i \in idx : \A j \in idx : j <= i]
  IN push_docker_image_for_azure(h, docker_image_available, event, id, push)

continue_flow(h, event, id, push) ==
  LET docker_image_available == find_latest_event(h, "DockerImageAvailable")
  IN push_docker_image_for_azure(h, docker_image_available, event, id, push)

\* Flow.resume: records the event, then continues the flow
resume(h, event, id, push) == continue_flow(add_event(h, event), event, id, push)

listen_CredentialProvided(h, event, id, push) ==
  resume(add_event(h, event), event, id, push)

\* ----------------------------------------------------- listener registry
NoFault == "none"

\* a second handler declared for CredentialProvided
DeclaredWithSharedKind ==
  {<<"DockerImageRequested", "listen_DockerImageRequested">>,
   <<"CredentialProvided", "listen_DockerImagePushRequested">>,
   <<"CredentialProvided", "listen_CredentialProvided">>}

\* the @listen declarations of LicdataArtifact: event kind, handler
Declared ==
  {<<"DockerImageRequested", "listen_DockerImageRequested">>,
   <<"DockerImagePushRequested", "listen_DockerImagePushRequested">>,
   <<"CredentialProvided", "listen_CredentialProvided">>}

KindsOf(reg) == {p[1] : p \in reg}

\* register(kind, handler): ConfigurationError when the kind has a handler
register(reg, kind, handler) ==
  IF kind \in KindsOf(reg)
  THEN [registry |-> reg, fault |-> "ConfigurationError"]
  ELSE [registry |-> reg \cup {<<kind, handler>>}, fault |-> NoFault]

RECURSIVE register_all(_, _)
\* the declarations registered one after the other
register_all(reg, pairs) ==
  IF pairs = {} THEN reg
  ELSE LET p == CHOOSE q \in pairs : TRUE
       IN register_all(register(reg, p[1], p[2]).registry, pairs \ {p})

\* dispatch(event): the handlers invoked for the kind, UnhandledEventError
\* when there is none
dispatch(reg, kind) ==
  IF kind \in KindsOf(reg)
  THEN [invoked |-> {p[2] : p \in {q \in reg : q[1] = kind}},
        fault |-> NoFault]
  ELSE [invoked |-> {}, fault |-> "UnhandledEventError"]

\* ----------------------------------------------------------------- state
VARIABLES
  registry,     \* the listener registry: pairs of event kind and handler
  dispatched,   \* the latest call on the registry
  singleton,    \* LicdataArtifact._singleton is set
  instances,    \* how many LicdataArtifact objects were created
  events,       \* the history of the singleton's Flow
  nextId,       \* the next event id to assign
  delivered,    \* the inbound events delivered so far
  outbox,       \* every event returned by a handler, in order
  buildCalls,   \* invocations of the build collaborator
  pushCalls,    \* invocations of the push collaborator
  deliveries,   \* handler invocations so far
  last          \* the latest handler invocation

vars ==
  <<registry, dispatched, singleton, instances, events, nextId, delivered, outbox,
    buildCalls, pushCalls, deliveries, last>>

NoCall ==
  [call |-> "none", kind |-> "None", handler |-> "none", fault |-> NoFault,
   invoked |-> {}, before |-> {}]

\* ---------------------------------------------------------------- inputs
ImageNames == {<<"licdata">>, <<"billing">>}
ImageVersion == <<"1", ".", "0">>

Metadata(variant, credentialName, credentialValue, registryUrl) ==
  [EmptyMetadata EXCEPT !["variant"] = variant,
                        !["credential_name"] = credentialName,
                        !["credential_value"] = credentialValue,
                        !["docker_registry_url"] = registryUrl]

\* an azure request that names its base image, python and registry
TailoredMetadata ==
  [Metadata(<<"azure">>, Absent, Absent, <<"registry">>)
     EXCEPT !["azure_base_image_version"] = <<"3">>,
            !["python_version"] = <<"3", ".", "11">>]

RequestMetadatas ==
  {Metadata(<<"azure">>, Absent, Absent, Absent),
   Metadata(<<"gcp">>, Absent, Absent, Absent),
   EmptyMetadata}

ImageRequestMetadatas == RequestMetadatas \cup {TailoredMetadata}

PushRequestMetadatas ==
  RequestMetadatas
    \cup {Metadata(<<"azure">>, <<"user">>, <<"pw">>, <<"registry">>)}

CredentialMetadatas ==
  {Metadata(Absent, Absent, Absent, <<"registry">>)}

\* the id of an event of another process, which this flow never accepted
ExternalAncestor == 0 - 1

\* previousEventIds of an inbound push request: it descends from an event
\* of another process (image requests are root events)
PushRequestPreviousEventIds == <<ExternalAncestor>>

BuildBehaviours == {"ok", "raises"}

NoPush == [stream |-> <<>>, raises |-> NoRaise]

Streams ==
  UNION {[1..n -> {"status", "error"}] : n \in 0..MaxStream}

\* the docker client yields its notifications, or raises (an APIError, or
\* an error of another class) before it yields any
PushBehaviours ==
  [stream : Streams, raises : {NoRaise}]
    \cup [stream : {<<>>}, raises : {"APIError", "ConnectionError"}]

\* ---------------------------------------------------------------- actions
\* the flow before any event is handled
FlowInit ==
  /\ singleton = FALSE
  /\ instances = 0
  /\ events = <<>>
  /\ nextId = 1
  /\ delivered = {}
  /\ outbox = <<>>
  /\ buildCalls = 0
  /\ pushCalls = 0
  /\ deliveries = 0
  /\ last = [handler |-> "none", event |-> NoEvent, build |-> "ok",
             push |-> NoPush, returned |-> <<>>, raised |-> NoRaise,
             builds |-> 0, pushes |-> 0, before |-> <<>>]

\* the class is defined: its declarations are registered
Init ==
  /\ registry = register_all({}, Declared)
  /\ dispatched = NoCall
  /\ FlowInit

\* the object instance() creates is not kept in _singleton
instance_not_kept(s) == FALSE

\* the objects instance() creates: one when _singleton is None
initialize_calls(s) == IF s = FALSE THEN 1 ELSE 0

\* the history of the object instance() returns: that of a new Flow when
\* _singleton is None, that of the singleton afterwards
flow_history(s, h) == IF s = FALSE THEN <<>> ELSE h

\* LicdataArtifact.instance(): the singleton is created on first use and
\* kept afterwards.
instance(s) == IF s = FALSE THEN TRUE ELSE s

\* One handler invocation on event with outcome o.
Handled(handler, event, o, usedInbound, build, push) ==
  /\ UNCHANGED registry
  /\ dispatched' = [call |-> "dispatch", kind |-> event.kind,
                    handler |-> handler, fault |-> NoFault,
                    invoked |-> dispatch(registry, event.kind).invoked,
                    before |-> registry]
  /\ singleton' = instance(singleton)
  /\ instances' = instances + initialize_calls(singleton)
  /\ events' = o.events
  /\ nextId' = nextId + usedInbound + o.used
  /\ delivered' = delivered \cup {event}
  /\ outbox' = outbox \o o.returned
  /\ buildCalls' = buildCalls + o.builds
  /\ pushCalls' = pushCalls + o.pushes
  /\ deliveries' = deliveries + 1
  /\ last' = [handler |-> handler, event |-> event, build |-> build,
              push |-> push, returned |-> o.returned, raised |-> o.raised,
              builds |-> o.builds, pushes |-> o.pushes, before |-> events]

Dispatch(event, usedInbound, build, push) ==
  CASE dispatch(registry, event.kind).invoked = {"listen_DockerImageRequested"} ->
         Handled("listen_DockerImageRequested", event,
                 listen_DockerImageRequested(flow_history(singleton, events), event, nextId + usedInbound, build),
                 usedInbound, build, NoPush)
    [] dispatch(registry, event.kind).invoked = {"listen_DockerImagePushRequested"} ->
         Handled("listen_DockerImagePushRequested", event,
                 listen_DockerImagePushRequested(flow_history(singleton, events), event, nextId + usedInbound, build),
                 usedInbound, build, NoPush)
    [] dispatch(registry, event.kind).invoked = {"listen_CredentialProvided"} ->
         Handled("listen_CredentialProvided", event,
                 listen_CredentialProvided(flow_history(singleton, events), event, nextId + usedInbound, push),
                 usedInbound, "ok", push)

DeliverDockerImageRequested ==
  /\ deliveries < MaxDeliveries
  /\ \E n \in ImageNames, m \in ImageRequestMetadatas, build \in BuildBehaviours :
       /\ is_for_azure(DockerImageRequested(nextId, n, ImageVersion, m, <<>>))
            \/ build = "ok"
       /\ Dispatch(DockerImageRequested(nextId, n, ImageVersion, m, <<>>),
                   1, build, NoPush)

DeliverDockerImagePushRequested ==
  /\ deliveries < MaxDeliveries
  /\ \E n \in ImageNames, m \in PushRequestMetadatas, build \in BuildBehaviours :
       /\ is_for_azure(DockerImagePushRequested(nextId, n, ImageVersion, m,
                                                PushRequestPreviousEventIds))
            \/ build = "ok"
       /\ Dispatch(DockerImagePushRequested(nextId, n, ImageVersion, m,
                                            PushRequestPreviousEventIds),
                   1, build, NoPush)

\* the previousEventIds an external credential provider may answer with
AnswerableIds ==
  {<<>>} \cup {<<e.id>> \o e.previous_event_ids :
                 e \in {x \in Range(outbox) : x.kind = "CredentialRequested"}}

DeliverCredentialProvided ==
  /\ deliveries < MaxDeliveries
  /\ \E m \in CredentialMetadatas, prev \in AnswerableIds, push \in PushBehaviours :
       Dispatch(CredentialProvided(nextId, <<"user">>, <<"pw">>, m, prev),
                1, "ok", push)

\* the CredentialProvided a handler returned comes back through the
\* inbound channel
DeliverReturnedCredentialProvided ==
  /\ deliveries < MaxDeliveries
  /\ \E e \in Range(outbox), push \in PushBehaviours :
       /\ e.kind = "CredentialProvided"
       /\ Dispatch(e, 0, "ok", push)

\* the transport delivers again a CredentialProvided it already delivered
Redeliver ==
  /\ deliveries < MaxDeliveries
  /\ \E e \in delivered, push \in PushBehaviours :
       /\ e.kind = "CredentialProvided"
       /\ Dispatch(e, 0, "ok", push)

Next ==
  \/ DeliverDockerImageRequested
  \/ DeliverDockerImagePushRequested
  \/ DeliverCredentialProvided
  \/ DeliverReturnedCredentialProvided
  \/ Redeliver

Spec == Init /\ [][Next]_vars

\* ------------------------------------------- the registry on its own
RegistryKinds == KindsOf(Declared) \cup {"CredentialRequested"}

RegistryHandlers == {p[2] : p \in Declared} \cup {"listen_Other"}

RegistryInit ==
  /\ registry = {}
  /\ dispatched = NoCall
  /\ FlowInit

FlowUnchanged ==
  UNCHANGED <<singleton, instances, events, nextId, delivered, outbox, buildCalls,
              pushCalls, deliveries, last>>

Register ==
  \E kind \in RegistryKinds, handler \in RegistryHandlers :
    /\ registry' = register(registry, kind, handler).registry
    /\ dispatched' = [call |-> "register", kind |-> kind,
                      handler |-> handler,
                      fault |-> register(registry, kind, handler).fault,
                      invoked |-> {}, before |-> registry]
    /\ FlowUnchanged

DispatchKind ==
  \E kind \in RegistryKinds :
    /\ UNCHANGED registry
    /\ dispatched' = [call |-> "dispatch", kind |-> kind, handler |-> "none",
                      fault |-> dispatch(registry, kind).fault,
                      invoked |-> dispatch(registry, kind).invoked,
                      before |-> registry]
    /\ FlowUnchanged

RegistryNext == Register \/ DispatchKind

SpecRegistry == RegistryInit /\ [][RegistryNext]_vars

\* ------------------------------------------------------------ saga state
TerminalKinds == {"DockerImagePushed", "DockerImagePushFailed"}

OfKind(s, kinds) == SelectSeq(s, LAMBDA e : e.kind \in kinds)

\* The state of the flow as section 4.2 of the specification defines it,
\* read off the events the handlers produced: awaiting once a
\* CredentialRequested was emitted and recorded, terminal once a
\* DockerImagePushed / DockerImagePushFailed was produced after it.
SagaState(produced, history) ==
  LET marks == OfKind(produced, TerminalKinds \cup {"CredentialRequested"})
  IN IF marks = <<>> THEN "Idle"
     ELSE IF marks[Len(marks)].kind \in TerminalKinds THEN "Terminal"
     ELSE IF \E i \in 1..Len(history) : history[i].id = marks[Len(marks)].id
     THEN "AwaitingExternalInput"
     ELSE "Idle"

\* the handler invocation the latest step performed
Ran(handler) == last.handler = handler

Variant(event) == event.metadata["variant"]

\* the DockerImageAvailable events of a history, one per id, oldest first
AvailableIds(h) == {e.id : e \in {x \in Range(h) : x.kind = "DockerImageAvailable"}}

\* ------------------------------------------------------------------- C1
\* C1: when a CredentialProvided is resumed, the event the push step
\* produces is built from the DockerImageAvailable recorded last in the
\* history: it names that image and, where it carries previous event ids,
\* they start with that event's id, also when the history holds older
\* DockerImageAvailable events.
C1_LatestImageAvailableIsUsed ==
  (Ran("listen_CredentialProvided") /\ last.returned # <<>>) =>
    \E i \in 1..Len(last.before) :
      /\ last.before[i].kind = "DockerImageAvailable"
      /\ \A j \in (i + 1)..Len(last.before) :
           last.before[j].kind # "DockerImageAvailable"
      /\ last.returned[1].image_name = last.before[i].image_name
      /\ last.returned[1].image_version = last.before[i].image_version
      /\ last.returned[1].previous_event_ids # <<>> =>
           last.returned[1].previous_event_ids[1] = last.before[i].id

C1_Witness ==
  /\ Ran("listen_CredentialProvided")
  /\ Cardinality(AvailableIds(last.before)) >= 2
  /\ last.returned # <<>>
  /\ last.returned[1].kind = "DockerImagePushed"
  /\ \E i \in 1..Len(last.before) :
       /\ last.before[i].kind = "DockerImageAvailable"
       /\ last.before[i].image_name # last.returned[1].image_name

\* ------------------------------------------------------------------- C2
C2_Case ==
  /\ Ran("listen_DockerImagePushRequested")
  /\ Variant(last.event) = <<"azure">>
  /\ last.build = "ok"
  /\ last.event.metadata["credential_name"] = Absent

C2_Suspended ==
  C2_Case =>
    /\ Len(OfKind(last.returned, {"CredentialRequested"})) = 1
    /\ OfKind(last.returned, TerminalKinds \cup {"CredentialProvided"}) = <<>>
    /\ last.pushes = 0
    /\ last.raised = NoRaise
    /\ SagaState(outbox, events) = "AwaitingExternalInput"

C2_PushOnlyOnCredentialProvided ==
  (\/ pushCalls' # pushCalls
   \/ OfKind(outbox', TerminalKinds) # OfKind(outbox, TerminalKinds))
    => last'.handler = "listen_CredentialProvided"

\* C2: a DockerImagePushRequested for azure with a succeeding build and no
\* credential_name returns exactly one CredentialRequested and leaves the
\* flow awaiting external input; the push collaborator is invoked, and a
\* DockerImagePushed / DockerImagePushFailed produced, only by a step that
\* handles a CredentialProvided, however many other steps come before it.
C2_SuspendsUntilCredentialProvided ==
  [](C2_Suspended) /\ [][C2_PushOnlyOnCredentialProvided]_vars

C2_Witness ==
  /\ C2_Case
  /\ deliveries >= 2
  /\ last.returned[2].kind = "CredentialRequested"
  /\ pushCalls = 0

\* ------------------------------------------------------------------- C3
\* C3: for a flow awaiting external input, handling a CredentialProvided
\* produces exactly one terminal event (DockerImagePushed or
\* DockerImagePushFailed).
C3_ExactlyOneTerminalEvent ==
  [][(/\ SagaState(outbox, events) = "AwaitingExternalInput"
      /\ last'.handler = "listen_CredentialProvided")
       => /\ Len(last'.returned) = 1
          /\ last'.returned[1].kind \in TerminalKinds
          /\ Len(OfKind(outbox', TerminalKinds))
               = Len(OfKind(outbox, TerminalKinds)) + 1]_vars

\* ------------------------------------------------------------------- C4
\* C4: once the flow is terminal, delivering again a CredentialProvided
\* that was already delivered changes nothing: the push collaborator is
\* not invoked again and no further event is produced.
C4_RedeliveryIsIdempotent ==
  [][(/\ SagaState(outbox, events) = "Terminal"
      /\ last'.handler = "listen_CredentialProvided"
      /\ last'.event \in delivered)
       => /\ pushCalls' = pushCalls
          /\ outbox' = outbox
          /\ SagaState(outbox', events') = "Terminal"]_vars

\* ------------------------------------------------------------------- C5
\* C5: a DockerImageRequested whose variant is not "azure" (a missing
\* variant included) returns exactly one DockerImageFailed with reason
\* "Image not available", no DockerImageAvailable, and the build
\* collaborator is not invoked.
C5_NonAzureImageFails ==
  (Ran("listen_DockerImageRequested") /\ Variant(last.event) # <<"azure">>) =>
    /\ Len(last.returned) = 1
    /\ last.returned[1].kind = "DockerImageFailed"
    /\ last.returned[1].cause = <<"Image not available">>
    /\ last.builds = 0
    /\ last.raised = NoRaise
    /\ AvailableIds(events) = AvailableIds(last.before)

C5_Witness ==
  /\ Ran("listen_DockerImageRequested")
  /\ Variant(last.event) = Absent
  /\ last.returned[1].kind = "DockerImageFailed"
  /\ \E e \in delivered : Variant(e) = <<"gcp">> /\ e.kind = "DockerImageRequested"

\* ------------------------------------------------------------------- C6
\* C6: a DockerImageRequested for azure with a succeeding build returns
\* exactly one DockerImageAvailable and no DockerImageFailed, and the
\* requesting event's id is among its previous event ids.
C6_AzureImageAvailable ==
  (/\ Ran("listen_DockerImageRequested")
   /\ Variant(last.event) = <<"azure">>
   /\ last.build = "ok") =>
    /\ Len(last.returned) = 1
    /\ last.returned[1].kind = "DockerImageAvailable"
    /\ last.event.id \in Range(last.returned[1].previous_event_ids)
    /\ last.raised = NoRaise

C6_Witness ==
  /\ Ran("listen_DockerImageRequested")
  /\ Variant(last.event) = <<"azure">>
  /\ last.build = "ok"
  /\ last.builds = 1
  /\ last.returned[1].kind = "DockerImageAvailable"

\* ------------------------------------------------------------------- C7
\* C7: when the push collaborator yields an error notification anywhere
\* in its stream without raising, the push step returns a
\* DockerImagePushFailed and no DockerImagePushed.
C7_StreamErrorFailsThePush ==
  (/\ Ran("listen_CredentialProvided")
   /\ last.pushes = 1
   /\ "error" \in Range(last.push.stream)) =>
    /\ Len(last.returned) = 1
    /\ last.returned[1].kind = "DockerImagePushFailed"
    /\ Len(OfKind(events, {"DockerImagePushed"}))
         = Len(OfKind(last.before, {"DockerImagePushed"}))

C7_Witness ==
  /\ Ran("listen_CredentialProvided")
  /\ last.pushes = 1
  /\ last.push.stream = <<"status", "error">>
  /\ last.returned[1].kind = "DockerImagePushFailed"
  /\ \E e \in Range(outbox) : e.kind = "DockerImagePushed"

\* ------------------------------------------------------------------- C8
\* C8: every outcome of the push step is a terminal event: DockerImagePushed
\* when the push succeeds, DockerImagePushFailed on any push error, and no
\* push error escapes the CredentialProvided handler as an exception.
C8_PushErrorsBecomeEvents ==
  (Ran("listen_CredentialProvided") /\ last.pushes = 1) =>
    /\ last.raised = NoRaise
    /\ Len(last.returned) = 1
    /\ last.returned[1].kind =
         IF last.push.raises = NoRaise /\ "error" \notin Range(last.push.stream)
         THEN "DockerImagePushed" ELSE "DockerImagePushFailed"

\* ------------------------------------------------------------------- C9
\* C9: when the build collaborator raises while an azure DockerImageRequested
\* or DockerImagePushRequested is handled, the handler returns a
\* DockerImageFailed, emits no DockerImageAvailable and raises nothing.
C9_BuildErrorsBecomeEvents ==
  (/\ last.handler \in {"listen_DockerImageRequested",
                        "listen_DockerImagePushRequested"}
   /\ last.builds = 1
   /\ last.build = "raises") =>
    /\ last.raised = NoRaise
    /\ OfKind(last.returned, {"DockerImageFailed"}) # <<>>
    /\ OfKind(last.returned, {"DockerImageAvailable"}) = <<>>

\* ------------------------------------------------------------------ C10
\* C10: every event the push step produces carries as previous event ids
\* exactly the id of the CredentialProvided that triggered the resume, the
\* id of the recovered DockerImageAvailable and that event's previous ids.
C10_ResumeCorrelation ==
  (Ran("listen_CredentialProvided") /\ last.returned # <<>>) =>
    \E i \in 1..Len(last.before) :
      /\ last.before[i].kind = "DockerImageAvailable"
      /\ \A j \in (i + 1)..Len(last.before) :
           last.before[j].kind # "DockerImageAvailable"
      /\ Range(last.returned[1].previous_event_ids)
           = {last.event.id, last.before[i].id}
               \cup Range(last.before[i].previous_event_ids)

\* ------------------------------------------------------------------ C11
\* C11: when a CredentialProvided is resumed while the history holds no
\* DockerImageAvailable, the resume fails with a raised fault: the push
\* collaborator is not invoked and no DockerImagePushed /
\* DockerImagePushFailed is returned or recorded.
C11_ResumeWithoutImageFaults ==
  (/\ Ran("listen_CredentialProvided")
   /\ \A i \in 1..Len(last.before) :
        last.before[i].kind # "DockerImageAvailable") =>
    /\ last.raised # NoRaise
    /\ last.pushes = 0
    /\ last.returned = <<>>
    /\ OfKind(events, TerminalKinds) = <<>>

C11_Witness ==
  /\ Ran("listen_CredentialProvided")
  /\ OfKind(last.before, {"DockerImageAvailable"}) = <<>>
  /\ OfKind(last.before, {"DockerImageRequested"}) # <<>>
  /\ last.raised = "AttributeError"
  /\ last.push.stream # <<>>

\* ------------------------------------------------------------------ C12
\* the records a resume without a prior DockerImageAvailable left behind:
\* CredentialProvided entries that precede every DockerImageAvailable
FirstAvailable(h) ==
  LET idx == {i \in 1..Len(h) : h[i].kind = "DockerImageAvailable"}
  IN IF idx = {} THEN Len(h) + 1
     ELSE CHOOSE i \in idx : \A j \in idx : i <= j

HasViolation(h) ==
  \E i \in 1..(FirstAvailable(h) - 1) : h[i].kind = "CredentialProvided"

WithoutViolations(h) ==
  SelectSeq(SubSeq(h, 1, FirstAvailable(h) - 1),
            LAMBDA e : e.kind # "CredentialProvided")
    \o SubSeq(h, FirstAvailable(h), Len(h))

\* the latest handler invocation run again on history h
Replay(h) ==
  LET id == IF last.returned = <<>> THEN 0 ELSE last.returned[1].id
  IN CASE last.handler = "listen_DockerImageRequested" ->
            listen_DockerImageRequested(h, last.event, id, last.build)
       [] last.handler = "listen_DockerImagePushRequested" ->
            listen_DockerImagePushRequested(h, last.event, id, last.build)
       [] last.handler = "listen_CredentialProvided" ->
            listen_CredentialProvided(h, last.event, id, last.push)

\* C12: a resume that failed for want of a recorded DockerImageAvailable
\* affects no later event: every later DockerImageRequested,
\* DockerImagePushRequested or CredentialProvided returns, raises and
\* records what it would have on the history without the failed resume.
C12_ViolationAffectsNoLaterEvent ==
  (last.handler # "none" /\ HasViolation(last.before)) =>
    LET clean == WithoutViolations(last.before)
        replay == Replay(clean)
    IN /\ replay.returned = last.returned
       /\ replay.raised = last.raised
       /\ replay.pushes = last.pushes
       /\ replay.builds = last.builds
       /\ SubSeq(replay.events, Len(clean) + 1, Len(replay.events))
            = SubSeq(events, Len(last.before) + 1, Len(events))

C12_Witness ==
  /\ HasViolation(last.before)
  /\ Ran("listen_CredentialProvided")
  /\ last.returned # <<>>
  /\ last.returned[1].kind = "DockerImagePushed"

\* ------------------------------------------------------------------ C13
C13_Case ==
  /\ Ran("listen_DockerImageRequested")
  /\ Variant(last.event) = <<"azure">>
  /\ last.build = "ok"

\* C13 as claimed: the DockerImageAvailable of an azure DockerImageRequested
\* with a succeeding build has the requested image name and version.
C13_AvailableNamesTheRequestedImage ==
  C13_Case =>
    /\ last.returned[1].kind = "DockerImageAvailable"
    /\ last.returned[1].image_name = last.event.image_name
    /\ last.returned[1].image_version = last.event.image_version

\* C13 amended: the DockerImageAvailable has the requested image version,
\* the image name "<requested name>-azure-<azure_base_image_version, 4 by
\* default>-python<python_version without its dots, 3.12 by default>" and
\* the registry path "<docker_registry_url, localhost:5000 by
\* default>/<image name>:<image version>", which the handler composes.
C13_AvailableNamesTheAzureImage ==
  C13_Case =>
    LET base == Get(last.event.metadata, "azure_base_image_version", <<"4">>)
        python == Get(last.event.metadata, "python_version", <<"3", ".", "12">>)
        registry_url == Get(last.event.metadata, "docker_registry_url",
                        <<"localhost", ":", "5000">>)
        name == last.event.image_name \o <<"-azure-">> \o base \o <<"-python">>
                  \o SelectSeq(python, LAMBDA t : t # ".")
    IN /\ last.returned[1].kind = "DockerImageAvailable"
       /\ last.returned[1].image_version = last.event.image_version
       /\ last.returned[1].image_name = name
       /\ last.returned[1].image_url
            = registry_url \o <<"/">> \o name \o <<":">> \o last.event.image_version

C13_Witness ==
  /\ C13_Case
  /\ last.event.image_name = <<"licdata">>
  /\ last.returned[1].image_name
       = <<"licdata", "-azure-", "3", "-python", "3", "11">>
  /\ last.returned[1].image_url
       = <<"registry", "/", "licdata", "-azure-", "3", "-python", "3", "11",
           ":", "1", ".", "0">>
  /\ \E e \in Range(last.before) :
       /\ e.kind = "DockerImageAvailable"
       /\ e.image_url
            = <<"localhost", ":", "5000", "/", "licdata", "-azure-", "4",
                "-python", "3", "12", ":", "1", ".", "0">>

\* ------------------------------------------------------------------ C14
C14_Case ==
  /\ Ran("listen_DockerImagePushRequested")
  /\ Variant(last.event) = <<"azure">>
  /\ last.build = "ok"

\* C14: an azure DockerImagePushRequested with a succeeding build returns,
\* after the DockerImageAvailable, exactly one of CredentialRequested and
\* CredentialProvided: a CredentialRequested with name None when the
\* metadata has no credential_name, otherwise a CredentialProvided with the
\* metadata's credential_name and credential_value; its previous event ids
\* are the DockerImageAvailable's id followed by that event's previous ids.
C14_CredentialRequestedOrProvided ==
  C14_Case =>
    LET asked == OfKind(last.returned, {"CredentialRequested"})
        given == OfKind(last.returned, {"CredentialProvided"})
        images == OfKind(last.returned, {"DockerImageAvailable"})
        named == last.event.metadata["credential_name"] # Absent
    IN /\ Len(images) = 1
       /\ Len(asked) + Len(given) = 1
       /\ Len(last.returned) = 2
       /\ ~named => /\ Len(asked) = 1
                    /\ asked[1].name = None
                    /\ asked[1].previous_event_ids
                         = <<images[1].id>> \o images[1].previous_event_ids
       /\ named => /\ Len(given) = 1
                   /\ given[1].name = last.event.metadata["credential_name"]
                   /\ given[1].value = last.event.metadata["credential_value"]
                   /\ given[1].previous_event_ids
                        = <<images[1].id>> \o images[1].previous_event_ids

C14_Witness ==
  /\ C14_Case
  /\ last.event.metadata["credential_name"] = <<"user">>
  /\ last.returned[2].kind = "CredentialProvided"
  /\ last.returned[2].value = <<"pw">>
  /\ \E e \in Range(outbox) : e.kind = "CredentialRequested"

\* ------------------------------------------------------------------ C15
C15_Case ==
  /\ C14_Case
  /\ last.event.metadata["credential_name"] # Absent

CleanPush(push) == push.raises = NoRaise /\ "error" \notin Range(push.stream)

C16_FailuresCarryTheirCause ==
  \A e \in Range(outbox) :
    /\ e.kind = "DockerImageFailed" => e.cause = <<"Image not available">>
    /\ e.kind = "DockerImagePushFailed" => e.cause \notin {None, DictAsCause}

\* ------------------------------------------------------------------ C17
\* C17: a kind never has two handlers: register(kind, handler) fails with
\* ConfigurationError and leaves the registry alone when the kind has one,
\* and adds the handler otherwise; dispatch invokes exactly the handler
\* registered for the kind, or fails with UnhandledEventError when there is
\* none; the three handlers of LicdataArtifact are declared for three
\* distinct kinds, so registering them never fails.
C17_OneHandlerPerKind ==
  /\ \A p \in registry, q \in registry : p[1] = q[1] => p = q
  /\ dispatched.call = "register" =>
       IF dispatched.kind \in KindsOf(dispatched.before)
       THEN /\ dispatched.fault = "ConfigurationError"
            /\ registry = dispatched.before
       ELSE /\ dispatched.fault = NoFault
            /\ registry = dispatched.before
                 \cup {<<dispatched.kind, dispatched.handler>>}
  /\ dispatched.call = "dispatch" =>
       IF \E p \in registry : p[1] = dispatched.kind
       THEN /\ dispatched.fault = NoFault
            /\ Cardinality(dispatched.invoked) = 1
            /\ \A h \in dispatched.invoked : <<dispatched.kind, h>> \in registry
       ELSE /\ dispatched.fault = "UnhandledEventError"
            /\ dispatched.invoked = {}
  /\ Cardinality(Declared) = 3
  /\ Cardinality(KindsOf(Declared)) = 3
  /\ (/\ dispatched.call = "register"
      /\ dispatched.before \subseteq Declared
      /\ <<dispatched.kind, dispatched.handler>> \in Declared \ dispatched.before)
       => dispatched.fault = NoFault

C17_Witness ==
  /\ registry = Declared
  /\ dispatched.call = "register"
  /\ dispatched.kind = "CredentialProvided"
  /\ dispatched.handler = "listen_Other"
  /\ dispatched.fault = "ConfigurationError"

\* ------------------------------------------------------------------ C18
\* the part of the history the latest handling appended
Appended == SubSeq(events, Len(last.before) + 1, Len(events))

Occurrences(s, e) == Cardinality({i \in 1..Len(s) : s[i] = e})

\* C18: after a handler returns, the inbound event and each event the
\* handler produced occur exactly once in the part of the history that
\* handling appended, neither missing nor repeated.
C18_AppendedExactlyOncePerAcceptance ==
  (last.handler # "none" /\ last.raised = NoRaise) =>
    \A e \in {last.event} \cup Range(last.returned) :
      Occurrences(Appended, e) = 1

\* ------------------------------------------------------------------ C19
IdsOf(s) == {s[i].id : i \in 1..Len(s)}

ReferencedBy(s) == UNION {Range(s[i].previous_event_ids) : i \in 1..Len(s)}

\* the history when the i-th event of the latest handling was created: what
\* it held before, the inbound event, and the events created before it
AcceptedBefore(i) ==
  Append(last.before, last.event) \o SubSeq(last.returned, 1, i - 1)

C19_Case == last.handler # "none" /\ last.returned # <<>>

\* C19 as stated: every id in the previousEventIds of an event a handler
\* creates is the id of an event already accepted into the history when the
\* event is created.
C19_ReferencesAreAccepted ==
  C19_Case =>
    \A i \in 1..Len(last.returned) :
      Range(last.returned[i].previous_event_ids) \subseteq IdsOf(AcceptedBefore(i))

\* C19 amended: every id in the previousEventIds of an event a handler
\* creates is the id of an event already accepted into the history when the
\* event is created, or an id such an event carries in its own
\* previousEventIds (an ancestor the inbound event descends from, which this
\* history may never have held); none is the id of the event itself or of
\* an event created after it.
C19_ReferencesAreAcceptedOrInherited ==
  C19_Case =>
    \A i \in 1..Len(last.returned) :
      /\ Range(last.returned[i].previous_event_ids)
           \subseteq IdsOf(AcceptedBefore(i)) \cup ReferencedBy(AcceptedBefore(i))
      /\ \A id \in Range(last.returned[i].previous_event_ids) :
           id < last.returned[i].id

C19_Witness ==
  /\ Ran("listen_DockerImagePushRequested")
  /\ Len(last.returned) = 2
  /\ last.returned[2].kind = "CredentialRequested"
  /\ last.returned[2].previous_event_ids
       = <<last.returned[1].id, last.event.id, ExternalAncestor>>
  /\ ExternalAncestor \notin IdsOf(events)

\* ------------------------------------------------------------------ C20
\* the DockerImageAvailable of saga B, the one recorded last
C20_ImageOfB == find_latest_event(last.before, "DockerImageAvailable")

\* the CredentialProvided handled descends from the DockerImageAvailable of
\* a saga A, and the DockerImageAvailable of another saga B, for another
\* image, was recorded after it
C20_Case ==
  /\ Ran("listen_CredentialProvided")
  /\ last.returned # <<>>
  /\ C20_ImageOfB.id \notin Range(last.event.previous_event_ids)
  /\ \E a \in 1..Len(last.before) :
       /\ last.before[a].kind = "DockerImageAvailable"
       /\ last.before[a].id \in Range(last.event.previous_event_ids)
       /\ last.before[a].image_name # C20_ImageOfB.image_name

\* C20: the history is one sequence shared by every saga of the process, so
\* when A's DockerImageAvailable is recorded, then B's, and then A's
\* CredentialProvided is delivered, the resume recovers B's
\* DockerImageAvailable: the terminal event produced for A's credential
\* names B's image and, where it carries previous event ids, they start
\* with the id of B's DockerImageAvailable followed by A's credential's.
C20_ResumeForARecoversImageOfB ==
  C20_Case =>
    /\ Len(last.returned) = 1
    /\ last.returned[1].kind \in TerminalKinds
    /\ last.returned[1].image_name = C20_ImageOfB.image_name
    /\ last.returned[1].image_version = C20_ImageOfB.image_version
    /\ last.returned[1].previous_event_ids # <<>> =>
         /\ last.returned[1].previous_event_ids[1] = C20_ImageOfB.id
         /\ last.returned[1].previous_event_ids[2] = last.event.id

C20_Witness ==
  /\ C20_Case
  /\ last.returned[1].kind = "DockerImagePushed"
  /\ last.returned[1].image_name[1] = "billing"
  /\ \E a \in 1..Len(last.before) :
       /\ last.before[a].kind = "DockerImageAvailable"
       /\ last.before[a].id \in Range(last.event.previous_event_ids)
       /\ last.before[a].image_name[1] = "licdata"
  /\ \E c \in 1..Len(last.before) :
       /\ last.before[c].kind = "CredentialRequested"
       /\ last.event.previous_event_ids[1] = last.before[c].id

\* ------------------------------------------------------------------ C22
\* a credential request for the DockerImageAvailable recorded last is
\* outstanding in history h: a CredentialRequested, or the CredentialProvided
\* a push request synthesized, that names it first in its previous event ids
Outstanding(h) ==
  \E i \in 1..Len(h) :
    /\ h[i].kind \in {"CredentialRequested", "CredentialProvided"}
    /\ h[i] \in Range(outbox)
    /\ h[i].previous_event_ids # <<>>
    /\ h[i].previous_event_ids[1]
         = find_latest_event(h, "DockerImageAvailable").id

\* C22: the push collaborator is invoked on a CredentialProvided only when
\* a credential request for the recorded DockerImageAvailable was emitted and
\* recorded beforehand; a CredentialProvided delivered after an image
\* request alone triggers no push.
C22_PushOnlyWhenCredentialOutstanding ==
  (Ran("listen_CredentialProvided") /\ last.pushes > 0) =>
    Outstanding(last.before)

\* ------------------------------------------------------------------ C23
KindsHandled == {e.kind : e \in delivered}

\* C23: the first call of instance() creates the LicdataArtifact and every
\* later call returns it: no object exists before the first handling, one and
\* only one after any number of handlings, and every handler appends to the
\* history the handlers before it left.
C23_OneInstanceOneHistory ==
  /\ instances <= 1
  /\ singleton = (instances = 1)
  /\ singleton = (last.handler # "none")
  /\ singleton = FALSE => events = <<>>
  /\ last.handler # "none" =>
       /\ Len(events) > Len(last.before)
       /\ SubSeq(events, 1, Len(last.before)) = last.before

C23_Witness ==
  /\ instances = 1
  /\ KindsHandled
       = {"DockerImageRequested", "DockerImagePushRequested", "CredentialProvided"}
  /\ \A k \in KindsHandled : \E i \in 1..Len(events) : events[i].kind = k

\* ------------------------------------------------------------------ C24
\* C24: every handler records its inbound event first: it is the first
\* event the handling appends to the history, also when a collaborator
\* raises afterwards, and no event the handler produces stands at or before
\* that position.
C24_InboundRecordedFirst ==
  last.handler # "none" =>
    /\ Len(events) > Len(last.before)
    /\ events[Len(last.before) + 1] = last.event
    /\ \A e \in Range(last.returned) :
         /\ e # last.event
         /\ \E i \in 1..Len(events) : events[i] = e
         /\ \A i \in 1..Len(events) : events[i] = e => i > Len(last.before) + 1

C24_Witness ==
  /\ Ran("listen_DockerImagePushRequested")
  /\ last.before # <<>>
  /\ Len(last.returned) = 2
  /\ events[Len(last.before) + 1] = last.event
  /\ events[Len(last.before) + 2] = last.returned[1]

\* ------------------------------------------------------------------ C25
C25_Case ==
  /\ Ran("listen_DockerImagePushRequested")
  /\ Variant(last.event) # <<"azure">>

\* C25: for a DockerImagePushRequested whose variant is not "azure" the
\* handler returns one DockerImageFailed, whose previous event ids are the
\* request's id followed by the request's own, and nothing else; it
\* records the request and that event only, invokes neither the build nor
\* the push, raises nothing, and the saga is not awaiting a credential on
\* account of it.
C25_NonAzurePushRequestFails ==
  C25_Case =>
    /\ Len(last.returned) = 1
    /\ last.returned[1].kind = "DockerImageFailed"
    /\ last.returned[1].previous_event_ids
         = <<last.event.id>> \o last.event.previous_event_ids
    /\ last.returned[1].cause = <<"Image not available">>
    /\ last.returned[1].image_name = last.event.image_name
    /\ last.raised = NoRaise
    /\ last.builds = 0
    /\ last.pushes = 0
    /\ {e.kind : e \in Range(Appended)}
         = {"DockerImagePushRequested", "DockerImageFailed"}
    /\ AvailableIds(events) = AvailableIds(last.before)
    /\ SagaState(outbox, events)
         = SagaState(SubSeq(outbox, 1, Len(outbox) - 1), last.before)

C25_Witness ==
  /\ C25_Case
  /\ Variant(last.event) = <<"gcp">>
  /\ last.returned[1].kind = "DockerImageFailed"
  /\ last.returned[1].previous_event_ids = <<last.event.id, ExternalAncestor>>
  /\ SagaState(outbox, events) # "AwaitingExternalInput"

====
